---- MODULE Spec2Model ----
(***************************************************************************)
(* Lead lifecycle of the architect dashboard: the practices / leads /      *)
(* activities tables of lib/db.js, the populate-db script and the JSON API *)
(* of the Express server.  Every SQL statement is one atomic step; an      *)
(* `await` between two statements is a point where other requests run.     *)
(***************************************************************************)
EXTENDS Integers, Sequences, FiniteSets, TLC

\* ------------------------------------------------------------------ bounds
\* number of rows of architects.json the populate script processes
MaxIngest == 2
\* number of HTTP requests (detail page, PATCH, POST activity, poll) ever started
MaxReq == 2

\* ------------------------------------------------------------- JS values
UNDEFINED == "<undefined>"
NULL == "<null>"

\* JS truthiness of a string-or-undefined-or-null value
Truthy(v) == v \notin {UNDEFINED, NULL, ""}

\* a || b on such values
OrElse(a, b) == IF Truthy(a) THEN a ELSE b

\* JSON values of a request body, tagged with their JS type
JUndef == [type |-> "undefined", str |-> "", num |-> 0, arr |-> <<>>]
JStr(s) == [type |-> "string", str |-> s, num |-> 0, arr |-> <<>>]
JNum(n) == [type |-> "number", str |-> "", num |-> n, arr |-> <<>>]
JArr(a) == [type |-> "array", str |-> "", num |-> 0, arr |-> a]
JNull == [type |-> "null", str |-> "", num |-> 0, arr |-> <<>>]

\* ------------------------------------------------------------ constants
LEAD_STATUSES == <<"new", "contacted", "qualified", "proposal", "negotiating", "won", "lost">>

StatusEnum == {LEAD_STATUSES[i] : i \in DOMAIN LEAD_STATUSES}

\* LEAD_STATUSES.includes(v) for a JSON value v
StatusIncludes(v) == v.type = "string" /\ v.str \in StatusEnum

ScoreMin == 0
ScoreMax == 100
LimitDefault == 200
LimitMin == 1
LimitMax == 500

\* ------------------------------------------------------------- variables
VARIABLES
    practices,    \* practices table: id -> [url, name, email]
    practiceSeq,  \* last value of practices_id_seq
    leads,        \* leads table: id -> [practice_id, status, score, notes, tags]
    leadSeq,      \* last value of leads_id_seq
    activities,   \* activities table in id order: <<[lead_id, kind, title, body, extra]>>
    ing,          \* the populate script: [pc, id, n, record]
    req,          \* HTTP requests: slot -> [kind, pc, id, body, code]
    polls,        \* number of polls of GET /api/n8n/leads so far
    feed          \* the answer of GET /api/n8n/leads being delivered: [asked, query, limit, status, leads]

vars == <<practices, practiceSeq, leads, leadSeq, activities, ing, req, polls, feed>>

db == <<practices, practiceSeq, leads, leadSeq, activities>>

\* no answer of the feed is being delivered
NoFeed == [asked |-> FALSE, query |-> <<>>, limit |-> 0, status |-> NULL, leads |-> <<>>]

\* a step that is no poll: the answer of the last poll has been delivered
NoPoll == feed' = NoFeed /\ polls' = polls

\* ---------------------------------------------------------------- schema
\* rows of the practices table with the given url (url is UNIQUE)
PracticeByUrl(url) == {p \in DOMAIN practices : practices[p].url = url}

\* SELECT id FROM leads WHERE practice_id = $1
LeadsOfPractice(pid) == {l \in DOMAIN leads : leads[l].practice_id = pid}

\* column defaults of a row inserted into leads with (practice_id, status)
NewLeadRow(pid, status) ==
    [practice_id |-> pid, status |-> status, score |-> 0, notes |-> NULL, tags |-> <<>>]

\* ------------------------------------------------------------- ingestion
\* rows of architects.json: url, name and email as the scraper wrote them
Records ==
    { [url |-> "u1", name |-> "Acme", email |-> "x@a"],
      [url |-> "u1", name |-> UNDEFINED, email |-> ""],
      [url |-> "u2", name |-> "Bolt", email |-> "y@b"],
      [url |-> UNDEFINED, name |-> "Nourl", email |-> "z@c"],
      [url |-> "", name |-> "Emptyurl", email |-> "z@c"] }

\* `record` outside an iteration of the main loop
NoRecord == [url |-> UNDEFINED, name |-> UNDEFINED, email |-> UNDEFINED]

\* the parameter list of the INSERT in upsertPractice
PracticeRow(record) ==
    [url |-> record.url,
     name |-> OrElse(record.name, ""),
     email |-> OrElse(record.email, NULL)]

\* (mutant) RETURNING id gives the value drawn from the sequence
UpsertIdFresh(record) == practiceSeq + 1

\* INSERT ... ON CONFLICT (url) DO UPDATE ... RETURNING id; the id default is
\* drawn from the sequence before the conflict is detected
UpsertId(record) ==
    IF PracticeByUrl(record.url) # {}
    THEN CHOOSE p \in PracticeByUrl(record.url) : TRUE
    ELSE practiceSeq + 1

\* (mutant) a plain INSERT: the conflict on url is never taken
upsertPracticeInsertOnly(record) ==
    /\ practiceSeq' = practiceSeq + 1
    /\ practices' = (practiceSeq + 1 :> PracticeRow(record)) @@ practices

upsertPractice(record) ==
    /\ practiceSeq' = practiceSeq + 1
    /\ practices' =
         IF PracticeByUrl(record.url) # {}
         THEN [practices EXCEPT ![UpsertId(record)] = PracticeRow(record)]
         ELSE (practiceSeq + 1 :> PracticeRow(record)) @@ practices

\* (mutant) no UNIQUE on leads.practice_id
EnsureLeadInsertAlways(pid) == TRUE

\* leads.practice_id is UNIQUE: the INSERT succeeds only for a practice without lead
EnsureLeadInsertOk(pid) == LeadsOfPractice(pid) = {}

\* the INSERT of ensureLead: it fails on leads.practice_id UNIQUE, and the
\* sequence value it drew is lost
ensureLeadInsert(pid) ==
    /\ leadSeq' = leadSeq + 1
    /\ leads' =
         IF EnsureLeadInsertOk(pid)
         THEN (leadSeq + 1 :> NewLeadRow(pid, "new")) @@ leads
         ELSE leads

\* main loop of the populate script: one iteration up to the first await
IngestSkip ==
    /\ ing.pc = "loop"
    /\ ing.n < MaxIngest
    /\ \E record \in Records :
         /\ ~Truthy(record.url)
         /\ ing' = [ing EXCEPT !.n = @ + 1]
    /\ NoPoll
    /\ UNCHANGED <<db, req>>

IngestUpsert ==
    /\ ing.pc = "loop"
    /\ ing.n < MaxIngest
    /\ \E record \in Records :
         /\ Truthy(record.url)
         /\ upsertPractice(record)
         /\ ing' = [ing EXCEPT !.pc = "ensureSelect", !.id = UpsertId(record), !.n = @ + 1,
                              !.record = record]
    /\ NoPoll
    /\ UNCHANGED <<leads, leadSeq, activities, req>>

\* ensureLead(id): the SELECT, returning early when a lead exists
IngestEnsureSelect ==
    /\ ing.pc = "ensureSelect"
    /\ ing' = IF LeadsOfPractice(ing.id) # {}
              THEN [ing EXCEPT !.pc = "loop", !.record = NoRecord]
              ELSE [ing EXCEPT !.pc = "ensureInsert"]
    /\ NoPoll
    /\ UNCHANGED <<db, req>>

\* ensureLead(id): the INSERT; a unique violation ends the script (exit 1)
IngestEnsureInsert ==
    /\ ing.pc = "ensureInsert"
    /\ ensureLeadInsert(ing.id)
    /\ ing' = [ing EXCEPT !.pc = IF EnsureLeadInsertOk(ing.id) THEN "loop" ELSE "crashed",
                          !.record = NoRecord]
    /\ NoPoll
    /\ UNCHANGED <<practices, practiceSeq, activities, req>>

\* ----------------------------------------------------------- HTTP: state
Slots == 1..MaxReq

NoBody == [status |-> JUndef, notes |-> JUndef, score |-> JUndef, tags |-> JUndef]

NoAct == [kind |-> UNDEFINED, title |-> <<>>, body |-> UNDEFINED, metadata |-> UNDEFINED]

IdleReq == [kind |-> "idle", pc |-> "idle", id |-> 0, body |-> NoBody, act |-> NoAct, code |-> 0]

\* requests started so far
Started == polls + Cardinality({s \in Slots : req[s].kind # "idle"})

\* a request can arrive in slot s: slots are taken in order
CanStart(s) ==
    /\ Started < MaxReq
    /\ req[s].kind = "idle"
    /\ \A t \in Slots : t < s => req[t].kind # "idle"

\* ids a client puts in the path (parseInt of :id); 7 references nothing
IdInputs == {1, 7}

\* res.status(code).json(...) / res.render(...): the request in slot s is answered
Respond(s, code) == [req EXCEPT ![s].pc = "done", ![s].code = code]

\* (mutant) the handler does not return when the lead is missing
NotFoundIgnored(r) == [r EXCEPT !.pc = "addActivity"]

\* res.status(404) right after the first query of request r
NotFound(r) == [r EXCEPT !.pc = "done", !.code = 404]

Goto(s, pc) == [req EXCEPT ![s].pc = pc]

\* --------------------------------------------------- GET /practices/:id
\* getPractice(practiceId), 404 when there is none
DetailGetPractice(s) ==
    /\ CanStart(s)
    /\ \E id \in IdInputs :
         LET r == [IdleReq EXCEPT !.kind = "detail", !.id = id]
         IN req' = [req EXCEPT ![s] =
                      IF id \in DOMAIN practices
                      THEN [r EXCEPT !.pc = "getLead"]
                      ELSE NotFound(r)]
    /\ NoPoll
    /\ UNCHANGED <<db, ing>>

\* Once the lead is there, what is left of the handler (getLeadByPracticeId
\* again, listActivities, res.render) only reads: the page is answered.
DetailFound(s) == Respond(s, 200)

\* getLeadByPracticeId(practiceId); ensureLead only when it found nothing
DetailGetLead(s) ==
    /\ req[s].kind = "detail" /\ req[s].pc = "getLead"
    /\ req' = IF LeadsOfPractice(req[s].id) # {} THEN DetailFound(s) ELSE Goto(s, "ensureSelect")
    /\ NoPoll
    /\ UNCHANGED <<db, ing>>

\* ensureLead: the SELECT
DetailEnsureSelect(s) ==
    /\ req[s].kind = "detail" /\ req[s].pc = "ensureSelect"
    /\ req' = IF LeadsOfPractice(req[s].id) # {} THEN DetailFound(s) ELSE Goto(s, "ensureInsert")
    /\ NoPoll
    /\ UNCHANGED <<db, ing>>

\* ensureLead: the INSERT; a unique violation is thrown to next(e), the 500 page
DetailEnsureInsert(s) ==
    /\ req[s].kind = "detail" /\ req[s].pc = "ensureInsert"
    /\ ensureLeadInsert(req[s].id)
    /\ req' = IF EnsureLeadInsertOk(req[s].id) THEN DetailFound(s) ELSE Respond(s, 500)
    /\ NoPoll
    /\ UNCHANGED <<practices, practiceSeq, activities, ing>>

\* --------------------------------------------------------------- updateLead
\* (mutant) any non-empty string is accepted as a status
StatusAcceptedAnyString(v) == v.type = "string" /\ Truthy(v.str)

\* status && LEAD_STATUSES.includes(status)
StatusAccepted(v) == v.type = "string" /\ Truthy(v.str) /\ StatusIncludes(v)

\* typeof score === 'number' && score >= 0 && score <= 100
ScoreAccepted(v) == v.type = "number" /\ v.num >= ScoreMin /\ v.num <= ScoreMax

\* notes !== undefined
NotesAccepted(v) == v.type # "undefined"

\* Array.isArray(tags)
TagsAccepted(v) == v.type = "array"

UpdatedStatus(old, v) == IF StatusAccepted(v) THEN v.str ELSE old

\* (mutant) a score out of range is clamped to the nearest bound
UpdatedScoreClamped(old, v) ==
    IF v.type = "number"
    THEN (IF v.num < ScoreMin THEN ScoreMin ELSE IF v.num > ScoreMax THEN ScoreMax ELSE v.num)
    ELSE old

UpdatedScore(old, v) == IF ScoreAccepted(v) THEN v.num ELSE old

\* a string is stored as it is, null as NULL
UpdatedNotes(old, v) ==
    IF NotesAccepted(v) THEN (IF v.type = "string" THEN v.str ELSE NULL) ELSE old

UpdatedTags(old, v) == IF TagsAccepted(v) THEN v.arr ELSE old

\* (mutant) the UPDATE writes the whole row: a field the body does not validly
\* carry goes back to its column default
UpdatedLeadsWholeRow(leadId, body) ==
    IF leadId \in DOMAIN leads
    THEN [leads EXCEPT ![leadId] =
            [practice_id |-> @.practice_id,
             status |-> UpdatedStatus("new", body.status),
             score |-> UpdatedScore(0, body.score),
             notes |-> UpdatedNotes(NULL, body.notes),
             tags |-> UpdatedTags(<<>>, body.tags)]]
    ELSE leads

\* (mutant) a status outside the enum rejects the whole update
UpdatedLeadsAllOrNothing(leadId, body) ==
    IF leadId \in DOMAIN leads /\ (body.status.type = "undefined" \/ StatusAccepted(body.status))
    THEN [leads EXCEPT ![leadId] =
            [practice_id |-> @.practice_id,
             status |-> UpdatedStatus(@.status, body.status),
             score |-> UpdatedScore(@.score, body.score),
             notes |-> UpdatedNotes(@.notes, body.notes),
             tags |-> UpdatedTags(@.tags, body.tags)]]
    ELSE leads

\* UPDATE leads SET <accepted fields> WHERE id = $i (no statement at all when
\* no field was accepted; no row when the id matches none)
UpdatedLeads(leadId, body) ==
    IF leadId \in DOMAIN leads
    THEN [leads EXCEPT ![leadId] =
            [practice_id |-> @.practice_id,
             status |-> UpdatedStatus(@.status, body.status),
             score |-> UpdatedScore(@.score, body.score),
             notes |-> UpdatedNotes(@.notes, body.notes),
             tags |-> UpdatedTags(@.tags, body.tags)]]
    ELSE leads

\* --------------------------------------------------------------- addActivity
\* INSERT INTO activities (lead_id, kind, title, body, extra)
ActivityRow(leadId, kind, title, body, metadata) ==
    [lead_id |-> leadId,
     kind |-> kind,
     title |-> title,
     body |-> body,
     extra |-> IF metadata = UNDEFINED THEN "{}"
               ELSE IF metadata = NULL THEN "null" ELSE metadata]

\* (mutant) the new row takes the place of the last one
addActivityReplaceLast(row) ==
    activities' = IF activities = <<>> THEN <<row>>
                  ELSE [activities EXCEPT ![Len(activities)] = row]

addActivity(row) == activities' = Append(activities, row)

\* (mutant) a title that does not name the status
StatusTitleFixed(status) == <<"Status", "changed">>

\* `Status -> ${data.status}`, as the words of the title
StatusTitle(status) == <<"Status", "->", status>>

\* ------------------------------------------------- PATCH /api/leads/:id
PatchBody(status, notes, score, tags) ==
    [status |-> status, notes |-> notes, score |-> score, tags |-> tags]

PatchBodies ==
    { PatchBody(JStr("lost"), JUndef, JUndef, JUndef),
      PatchBody(JStr("new"), JUndef, JStr("50"), JUndef),
      PatchBody(JStr("archived"), JStr("hi"), JNum(100), JArr(<<"vip">>)),
      PatchBody(JStr(""), JNull, JNum(101), JStr("vip")),
      PatchBody(JUndef, JUndef, JNum(0 - 1), JUndef),
      PatchBody(JUndef, JUndef, JNum(0), JArr(<<>>)) }

\* (mutant) the status change is not logged
PatchAfterGetNoLog(body) == "updateLead"

\* where the handler goes after the lead was found
PatchAfterGet(body) ==
    IF Truthy(body.status.str) /\ StatusIncludes(body.status) THEN "addActivity" ELSE "updateLead"

\* getLeadById(leadId), 404 when there is none
PatchGetLead(s) ==
    /\ CanStart(s)
    /\ \E id \in IdInputs, body \in PatchBodies :
         LET r == [IdleReq EXCEPT !.kind = "patch", !.id = id, !.body = body]
         IN req' = [req EXCEPT ![s] =
                      IF id \in DOMAIN leads
                      THEN [r EXCEPT !.pc = PatchAfterGet(body)]
                      ELSE NotFound(r)]
    /\ NoPoll
    /\ UNCHANGED <<db, ing>>

PatchAddActivity(s) ==
    /\ req[s].kind = "patch" /\ req[s].pc = "addActivity"
    /\ addActivity(ActivityRow(req[s].id, "status_change",
                               StatusTitle(req[s].body.status.str), "", UNDEFINED))
    /\ req' = Goto(s, "updateLead")
    /\ NoPoll
    /\ UNCHANGED <<practices, practiceSeq, leads, leadSeq, ing>>

\* updateLead: the UPDATE statement, then getLeadById and res.json of the row
\* (a lead that has gone makes lead.id throw: 500)
PatchUpdateLead(s) ==
    /\ req[s].kind = "patch" /\ req[s].pc = "updateLead"
    /\ leads' = UpdatedLeads(req[s].id, req[s].body)
    /\ req' = Respond(s, IF req[s].id \in DOMAIN leads THEN 200 ELSE 500)
    /\ NoPoll
    /\ UNCHANGED <<practices, practiceSeq, leadSeq, activities, ing>>

\* ---------------------------------------- POST /api/leads/:id/activity
ActBodies ==
    { NoAct,
      [kind |-> "call", title |-> <<"Intro", "call">>, body |-> "spoke", metadata |-> NULL] }

ActGetLead(s) ==
    /\ CanStart(s)
    /\ \E id \in IdInputs, a \in ActBodies :
         LET r == [IdleReq EXCEPT !.kind = "activity", !.id = id, !.act = a]
         IN req' = [req EXCEPT ![s] =
                      IF id \in DOMAIN leads
                      THEN [r EXCEPT !.pc = "addActivity"]
                      ELSE NotFound(r)]
    /\ NoPoll
    /\ UNCHANGED <<db, ing>>

ActAddActivity(s) ==
    /\ req[s].kind = "activity" /\ req[s].pc = "addActivity"
    /\ addActivity(ActivityRow(req[s].id, OrElse(req[s].act.kind, "note"), req[s].act.title,
                               OrElse(req[s].act.body, ""), req[s].act.metadata))
    /\ req' = Respond(s, 200)
    /\ NoPoll
    /\ UNCHANGED <<practices, practiceSeq, leads, leadSeq, ing>>

\* ------------------------------------------------------ listLeadsForN8n
\* names every object literal inherits from Object.prototype
ObjectPrototypeKeys == {"constructor", "toString", "valueOf", "hasOwnProperty", "__proto__"}

\* the value such a name looks up: a function or object, truthy and no string
INHERITED == "<inherited>"

\* stageMap[status]
StageMapGet(status) ==
    CASE status = "new" -> "cold"
      [] status = "contacted" -> "no_reply"
      [] status \in {"qualified", "proposal", "negotiating", "won"} -> "positive_reply"
      [] status = "lost" -> "negative_reply"
      [] status \in ObjectPrototypeKeys -> INHERITED
      [] OTHER -> UNDEFINED

\* stageMap[row.status] || 'cold'
OutreachStage(status) == OrElse(StageMapGet(status), "cold")

\* (mutant) ORDER BY l.id DESC
RECURSIVE OrderByIdDesc(_)
OrderByIdDesc(S) ==
    IF S = {} THEN <<>>
    ELSE LET m == CHOOSE x \in S : \A y \in S : x >= y
         IN <<m>> \o OrderByIdDesc(S \ {m})

\* the set S of ids in ascending order (ORDER BY l.id)
RECURSIVE OrderById(_)
OrderById(S) ==
    IF S = {} THEN <<>>
    ELSE LET m == CHOOSE x \in S : \A y \in S : x <= y
         IN <<m>> \o OrderById(S \ {m})

\* LIMIT n
Limit(seq, n) == IF Len(seq) <= n THEN seq ELSE SubSeq(seq, 1, n)

\* (mutant) no condition on the email
HasEmailAny(l) == TRUE

\* p.email IS NOT NULL AND p.email != ''
HasEmail(l) == practices[leads[l].practice_id].email \notin {NULL, ""}

\* the WHERE clause: l.status = $1 when status is truthy, the email condition
\* when withEmailOnly; the join keeps leads whose practice row exists
FeedWhere(status, withEmailOnly) ==
    {l \in DOMAIN leads :
        /\ leads[l].practice_id \in DOMAIN practices
        /\ (Truthy(status) => leads[l].status = status)
        /\ (withEmailOnly => HasEmail(l))}

FeedRow(l) ==
    [lead_id |-> l,
     practice_id |-> leads[l].practice_id,
     status |-> leads[l].status,
     outreach_stage |-> OutreachStage(leads[l].status),
     email |-> OrElse(practices[leads[l].practice_id].email, "")]

listLeadsForN8n(limit, status, withEmailOnly) ==
    LET ids == Limit(OrderById(FeedWhere(status, withEmailOnly)), limit)
    IN [i \in DOMAIN ids |-> FeedRow(ids[i])]

\* ------------------------------------------------ GET /api/n8n/leads
\* query strings are sequences of characters (limit) or of blanks and words
\* (status); a parameter that is absent is undefined
ABSENT == <<UNDEFINED>>

Digits == <<"0", "1", "2", "3", "4", "5", "6", "7", "8", "9">>

IsDigit(c) == \E i \in DOMAIN Digits : Digits[i] = c

DigitVal(c) == (CHOOSE i \in DOMAIN Digits : Digits[i] = c) - 1

NaN == [nan |-> TRUE, val |-> 0]

Num(n) == [nan |-> FALSE, val |-> n]

\* characters of str from position i on
From(str, i) == SubSeq(str, i, Len(str))

RECURSIVE SkipBlanks(_)
SkipBlanks(str) == IF str # <<>> /\ Head(str) = " " THEN SkipBlanks(Tail(str)) ELSE str

\* value of the leading digits of str, given the value acc read so far
RECURSIVE ReadDigits(_, _)
ReadDigits(str, acc) ==
    IF str # <<>> /\ IsDigit(Head(str))
    THEN ReadDigits(Tail(str), 10 * acc + DigitVal(Head(str)))
    ELSE acc

\* parseInt(v, 10): String(v), leading blanks skipped, an optional sign, then
\* digits up to the first other character; NaN when there is no digit
ParseInt(v) ==
    LET str == IF v = ABSENT THEN <<"u", "n", "d", "e", "f", "i", "n", "e", "d">> ELSE v
        t == SkipBlanks(str)
        signed == t # <<>> /\ Head(t) \in {"-", "+"}
        d == IF signed THEN Tail(t) ELSE t
    IN IF d = <<>> \/ ~IsDigit(Head(d)) THEN NaN
       ELSE Num((IF signed /\ Head(t) = "-" THEN 0 - 1 ELSE 1) * ReadDigits(d, 0))

Max(a, b) == IF a >= b THEN a ELSE b

Min(a, b) == IF a <= b THEN a ELSE b

\* (mutant) no ceiling
EffectiveLimitNoCeiling(v) ==
    LET n == ParseInt(v)
    IN Max(LimitMin, IF n.nan \/ n.val = 0 THEN LimitDefault ELSE n.val)

\* Math.min(500, Math.max(1, parseInt(req.query.limit, 10) || 200))
EffectiveLimit(v) ==
    LET n == ParseInt(v)
    IN Min(LimitMax, Max(LimitMin, IF n.nan \/ n.val = 0 THEN LimitDefault ELSE n.val))

RECURSIVE TrimLeft(_)
TrimLeft(w) == IF w # <<>> /\ Head(w) = " " THEN TrimLeft(Tail(w)) ELSE w

RECURSIVE TrimRight(_)
TrimRight(w) ==
    IF w # <<>> /\ w[Len(w)] = " " THEN TrimRight(SubSeq(w, 1, Len(w) - 1)) ELSE w

RECURSIVE Join(_)
Join(w) == IF w = <<>> THEN "" ELSE Head(w) \o Join(Tail(w))

\* (req.query.status || '').trim() || null
StatusFilter(v) ==
    LET str == IF v = ABSENT THEN <<>> ELSE v
    IN OrElse(Join(TrimRight(TrimLeft(str))), NULL)

Query(limit, status) == [limit |-> limit, status |-> status]

\* the query strings a poll sends
FeedQueries ==
    { Query(ABSENT, ABSENT),
      Query(<<"1">>, <<"new">>),
      Query(<<"0">>, <<" ", "lost", " ">>),
      Query(<<"-", "5">>, <<" ">>),
      Query(<<"5", "0", "1">>, <<"archived">>),
      Query(<<"a", "b">>, <<>>),
      Query(<<" ", "2", "p", "x">>, <<"new">>) }

\* the whole handler is one statement; its answer is held until the next step
GetN8nLeads ==
    /\ Started < MaxReq
    /\ polls' = polls + 1
    /\ \E q \in FeedQueries :
         feed' = [asked |-> TRUE,
                  query |-> q.limit,
                  limit |-> EffectiveLimit(q.limit),
                  status |-> StatusFilter(q.status),
                  leads |-> listLeadsForN8n(EffectiveLimit(q.limit), StatusFilter(q.status), TRUE)]
    /\ UNCHANGED <<db, ing, req>>

\* ------------------------------------------------------------------ Init
Init ==
    /\ practices = <<>>
    /\ practiceSeq = 0
    /\ leads = <<>>
    /\ leadSeq = 0
    /\ activities = <<>>
    /\ ing = [pc |-> "loop", id |-> 0, n |-> 0, record |-> NoRecord]
    /\ req = [s \in Slots |-> IdleReq]
    /\ polls = 0
    /\ feed = NoFeed

\* A store that held rows before this program was started against it (the
\* schema is only created IF NOT EXISTS): one practice with its lead, whose
\* email and status are whatever the columns allow.
LegacyRows ==
    { [email |-> "x@a", status |-> "qualified"],
      [email |-> "x@a", status |-> "constructor"],
      [email |-> "", status |-> "archived"],
      [email |-> NULL, status |-> "won"] }

InitExisting ==
    /\ \E row \in LegacyRows :
         /\ practices = (1 :> [url |-> "u1", name |-> "Acme", email |-> row.email])
         /\ leads = (1 :> NewLeadRow(1, row.status))
    /\ practiceSeq = 1
    /\ leadSeq = 1
    /\ activities = <<>>
    /\ ing = [pc |-> "loop", id |-> 0, n |-> 0, record |-> NoRecord]
    /\ req = [s \in Slots |-> IdleReq]
    /\ polls = 0
    /\ feed = NoFeed

Next ==
    \/ IngestSkip
    \/ IngestUpsert
    \/ IngestEnsureSelect
    \/ IngestEnsureInsert
    \/ \E s \in Slots : DetailGetPractice(s)
    \/ \E s \in Slots : DetailGetLead(s)
    \/ \E s \in Slots : DetailEnsureSelect(s)
    \/ \E s \in Slots : DetailEnsureInsert(s)
    \/ \E s \in Slots : PatchGetLead(s)
    \/ \E s \in Slots : PatchAddActivity(s)
    \/ \E s \in Slots : PatchUpdateLead(s)
    \/ \E s \in Slots : ActGetLead(s)
    \/ \E s \in Slots : ActAddActivity(s)
    \/ GetN8nLeads

Spec == Init /\ [][Next]_vars

\* ingestion, lead updates and polls over a store that already holds rows
NextExisting ==
    \/ IngestSkip
    \/ IngestUpsert
    \/ IngestEnsureSelect
    \/ IngestEnsureInsert
    \/ \E s \in Slots : PatchGetLead(s)
    \/ \E s \in Slots : PatchAddActivity(s)
    \/ \E s \in Slots : PatchUpdateLead(s)
    \/ GetN8nLeads

SpecExisting == InitExisting /\ [][NextExisting]_vars

\* ------------------------------------------------------------ properties
\* words of the claims
Count(S) == Cardinality(S)

Contains(title, word) == \E i \in DOMAIN title : title[i] = word

InEnum(v) == v.type = "string" /\ v.str \in StatusEnum

\* the status_change activities of lead l whose title contains status st
StatusChanges(l, st) ==
    {i \in DOMAIN activities :
        /\ activities[i].lead_id = l
        /\ activities[i].kind = "status_change"
        /\ Contains(activities[i].title, st)}

\* the PATCH requests for lead l and status st that are past their first query
\* with the lead found, and have finished the step that follows it
PatchesLogged(l, st) ==
    {s \in Slots :
        /\ req[s].kind = "patch" /\ req[s].id = l /\ req[s].body.status = JStr(st)
        /\ (req[s].pc = "updateLead" \/ (req[s].pc = "done" /\ req[s].code = 200))}

\* C1: whenever the populate script is between two rows (or has stopped), every
\* url it stored has exactly one practice row, the row it handled last is
\* there, and every practice has exactly one lead, however often a url came.
C1_OnePracticeOneLeadPerUrl ==
    ing.pc \in {"loop", "crashed"} =>
        /\ ing.id # 0 => ing.id \in DOMAIN practices
        /\ \A p \in DOMAIN practices :
             /\ Count(PracticeByUrl(practices[p].url)) = 1
             /\ Count(LeadsOfPractice(p)) = 1

\* C1 witness: the same url was ingested twice and left one practice, one lead
C1_Witness ==
    /\ ing.pc = "loop" /\ ing.n = 2 /\ practiceSeq = 2
    /\ Count(DOMAIN practices) = 1 /\ Count(DOMAIN leads) = 1

\* the stage the table of section 4.1 gives a status, cold outside the enum
TableStage(status) ==
    CASE status = "new" -> "cold"
      [] status = "contacted" -> "no_reply"
      [] status \in {"qualified", "proposal", "negotiating", "won"} -> "positive_reply"
      [] status = "lost" -> "negative_reply"
      [] OTHER -> "cold"

C3_OneStatusChangePerPatch ==
    \A l \in IdInputs \cup DOMAIN leads : \A st \in StatusEnum :
        Count(StatusChanges(l, st)) = Count(PatchesLogged(l, st))

\* C3 witness: a PATCH to the status the lead already had is answered, and the
\* lead has the one activity
C3_Witness ==
    \E s \in Slots :
        /\ req[s].kind = "patch" /\ req[s].pc = "done" /\ req[s].code = 200
        /\ req[s].body.status = JStr("new")
        /\ \A t \in Slots \ {s} : req[t].kind # "patch"
        /\ leads[req[s].id].status = "new"
        /\ Count(StatusChanges(req[s].id, "new")) = 1

\* a step of the PATCH request in slot s
PatchStep(s) == req'[s].kind = "patch" /\ req'[s] # req[s]

\* the step of slot s that runs updateLead
UpdateStep(s) == req[s].kind = "patch" /\ req[s].pc = "updateLead" /\ req'[s].pc = "done"

\* C4: a PATCH whose status is not in the enum changes no stored status and
\* adds no activity in any of its steps, goes from the lookup straight to the
\* update, writes there the notes, the in-range score and the tags it carries,
\* and is answered 200.
C4_InvalidStatusSkippedOnly ==
    [][\A s \in Slots :
        (PatchStep(s) /\ ~InEnum(req'[s].body.status)) =>
            /\ activities' = activities
            /\ DOMAIN leads' = DOMAIN leads
            /\ \A l \in DOMAIN leads : leads'[l].status = leads[l].status
            /\ (req[s].kind = "idle" /\ req'[s].id \in DOMAIN leads) => req'[s].pc = "updateLead"
            /\ UpdateStep(s) =>
                 LET b == req[s].body
                     row == leads'[req[s].id]
                 IN /\ req'[s].code = 200
                    /\ b.notes.type = "string" => row.notes = b.notes.str
                    /\ b.notes.type = "null" => row.notes = NULL
                    /\ (b.score.type = "number" /\ b.score.num \in ScoreMin..ScoreMax)
                         => row.score = b.score.num
                    /\ b.tags.type = "array" => row.tags = b.tags.arr]_vars

\* C4 witness: the PATCH {status: archived, notes, score 100, tags} is answered
\* 200 with the three fields stored and the status still new
C4_Witness ==
    \E s \in Slots :
        /\ req[s].kind = "patch" /\ req[s].pc = "done" /\ req[s].code = 200
        /\ req[s].body.status = JStr("archived")
        /\ leads[req[s].id].status = "new"
        /\ leads[req[s].id].notes = "hi"
        /\ leads[req[s].id].score = 100
        /\ leads[req[s].id].tags = <<"vip">>
        /\ activities = <<>>

\* C5: the update of a PATCH whose score is a number below 0 or above 100
\* leaves the stored score as it was, and a score of 0 or 100 is stored.
C5_ScoreOutOfRangeDropped ==
    [][\A s \in Slots :
        (UpdateStep(s) /\ req[s].body.score.type = "number") =>
            LET n == req[s].body.score.num
                l == req[s].id
            IN /\ (n < 0 \/ n > 100) => leads'[l].score = leads[l].score
               /\ n \in {0, 100} => leads'[l].score = n]_vars

\* C5 witness: a PATCH with score -1 is answered while the stored score is the
\* 100 an earlier PATCH wrote
C5_Witness ==
    \E s \in Slots :
        /\ req[s].kind = "patch" /\ req[s].pc = "done" /\ req[s].code = 200
        /\ req[s].body.score = JNum(0 - 1)
        /\ leads[req[s].id].score = 100

\* C6: no lead of a feed answer belongs to a practice whose email is null or
\* the empty string, whatever the status filter and the limit.
C6_FeedOnlyWithEmail ==
    feed.asked =>
        \A i \in DOMAIN feed.leads :
            /\ practices[feed.leads[i].practice_id].email \notin {NULL, ""}
            /\ feed.leads[i].email \notin {NULL, ""}

\* C6 witness: a poll without status filter over a store with a lead whose
\* practice has no email and a lead whose practice has one returns the latter only
C6_Witness ==
    /\ feed.asked /\ feed.status = NULL /\ feed.limit = 200
    /\ Len(feed.leads) = 1
    /\ \E l \in DOMAIN leads : practices[leads[l].practice_id].email = NULL

\* C7 as stated: the limit lies in [1,500], a limit that is no number or lies
\* outside [1,500] gives 200, and no answer is longer than the limit.
C7_OutOfRangeFallsBackTo200 ==
    feed.asked =>
        LET n == ParseInt(feed.query)
        IN /\ feed.limit \in 1..500
           /\ Len(feed.leads) <= feed.limit
           /\ (n.nan \/ n.val < 1 \/ n.val > 500) => feed.limit = 200

\* C7 (amended): the limit lies in [1,500] and no answer is longer than it; a
\* limit that is absent, no number or 0 gives 200, a negative one gives 1, one
\* above 500 gives 500, and one in [1,500] is taken as it is.
C7_LimitClamped ==
    feed.asked =>
        LET n == ParseInt(feed.query)
        IN /\ feed.limit \in 1..500
           /\ Len(feed.leads) <= feed.limit
           /\ (n.nan \/ n.val = 0) => feed.limit = 200
           /\ (~n.nan /\ n.val < 0) => feed.limit = 1
           /\ (~n.nan /\ n.val > 500) => feed.limit = 500
           /\ (~n.nan /\ n.val \in 1..500) => feed.limit = n.val

\* C7 witness: limit=-5 is answered with one lead of the two that qualify
C7_Witness ==
    /\ feed.asked /\ feed.query = <<"-", "5">> /\ feed.limit = 1
    /\ Len(feed.leads) = 1
    /\ Count(FeedWhere(feed.status, TRUE)) = 2

\* C8: a lead's stored status differs from new only if a status_change activity
\* naming it exists for the lead, and whenever a PATCH writes a status (its
\* update step, with a status of the enum) such an activity existed before.
C8_ActivityBeforeStatus ==
    /\ [](\A l \in DOMAIN leads :
            leads[l].status # "new" => StatusChanges(l, leads[l].status) # {})
    /\ [][\A s \in Slots :
            (UpdateStep(s) /\ InEnum(req[s].body.status) /\ req[s].id \in DOMAIN leads) =>
                /\ leads'[req[s].id].status = req[s].body.status.str
                /\ StatusChanges(req[s].id, req[s].body.status.str) # {}]_vars

\* C8 witness: a PATCH to lost is answered, the status is lost and the activity is there
C8_Witness ==
    \E s \in Slots :
        /\ req[s].kind = "patch" /\ req[s].pc = "done" /\ req[s].code = 200
        /\ req[s].body.status = JStr("lost")
        /\ leads[req[s].id].status = "lost"
        /\ StatusChanges(req[s].id, "lost") # {}

\* the status_change activities of lead l
StatusChangesOf(l) ==
    {i \in DOMAIN activities :
        activities[i].lead_id = l /\ activities[i].kind = "status_change"}

\* the one inserted last
LastOf(S) == CHOOSE i \in S : \A j \in S : j <= i

\* C9: in every state a lead that has status_change activities stores the
\* status its last one names, and a lead whose status is not the initial new
\* has one: neither of the pair is seen without the other.
C9_StatusAndActivityAtomic ==
    \A l \in DOMAIN leads :
        /\ StatusChangesOf(l) # {} =>
             Contains(activities[LastOf(StatusChangesOf(l))].title, leads[l].status)
        /\ leads[l].status # "new" => StatusChanges(l, leads[l].status) # {}

\* C10 as stated: every practice has exactly one lead in every state.
C10_ExactlyOneLeadAlways ==
    \A p \in DOMAIN practices : Count(LeadsOfPractice(p)) = 1

\* C10 (amended): every practice has at most one lead, and has none only while
\* the populate script is between its upsert of the practice and the end of
\* the ensureLead that follows; a lead starts with status new and the column
\* defaults; no step removes a lead or moves it to another practice.
C10_AtMostOneLeadNeverDeleted ==
    /\ [](\A p \in DOMAIN practices :
            /\ Count(LeadsOfPractice(p)) <= 1
            /\ LeadsOfPractice(p) = {} =>
                 (ing.id = p /\ ing.pc \in {"ensureSelect", "ensureInsert"}))
    /\ [][/\ \A l \in DOMAIN leads :
                l \in DOMAIN leads' /\ leads'[l].practice_id = leads[l].practice_id
          /\ \A l \in DOMAIN leads' \ DOMAIN leads :
                leads'[l] = NewLeadRow(leads'[l].practice_id, "new")]_vars

\* C10 witness: an ensureLead lost the race for a practice (unique violation,
\* 500 or the script stopped) and every practice has its one lead
C10_Witness ==
    /\ \/ ing.pc = "crashed"
       \/ \E s \in Slots : req[s].kind = "detail" /\ req[s].code = 500
    /\ practices # <<>>
    /\ \A p \in DOMAIN practices : Count(LeadsOfPractice(p)) = 1

\* the step of the populate script that runs upsertPractice
UpsertStep == ing.pc = "loop" /\ ing'.pc = "ensureSelect"

\* C11: an upsertPractice of a record whose url is stored already returns the
\* id of the practice that has the url, adds no practice, leaves every other
\* practice as it was, stores the record's name and email in the practice, and
\* changes no lead and no activity.
C11_UpsertKeepsIdentityAndLead ==
    [][(UpsertStep /\ PracticeByUrl(ing'.record.url) # {}) =>
          /\ ing'.id \in PracticeByUrl(ing'.record.url)
          /\ DOMAIN practices' = DOMAIN practices
          /\ \A p \in DOMAIN practices \ {ing'.id} : practices'[p] = practices[p]
          /\ practices'[ing'.id].url = ing'.record.url
          /\ practices'[ing'.id].name = OrElse(ing'.record.name, "")
          /\ practices'[ing'.id].email = OrElse(ing'.record.email, NULL)
          /\ leads' = leads
          /\ activities' = activities]_vars

\* C11 witness: the url of practice 1, whose lead was set to lost and has its
\* activity, came again without name and email: the practice lost both, the
\* lead and the activity are there
C11_Witness ==
    /\ ing.pc = "ensureSelect" /\ ing.id = 1 /\ practiceSeq = 2
    /\ ing.record.name = UNDEFINED
    /\ practices[1] = [url |-> "u1", name |-> "", email |-> NULL]
    /\ 1 \in DOMAIN leads /\ leads[1].practice_id = 1 /\ leads[1].status = "lost"
    /\ StatusChanges(1, "lost") # {}

\* the step in which the request of slot s arrives and runs its first query
ArriveStep(s, kind) == req[s].kind = "idle" /\ req'[s].kind = kind

\* C12: a PATCH or a POST activity whose id references no lead is answered 404
\* in the step of its lookup, that step changes no lead and no activity, and
\* the request takes no further step.
C12_MissingLead404NoWrite ==
    [][\A s \in Slots :
          /\ ((ArriveStep(s, "patch") \/ ArriveStep(s, "activity")) /\ req'[s].id \notin DOMAIN leads) =>
                /\ req'[s].pc = "done" /\ req'[s].code = 404
                /\ leads' = leads /\ leadSeq' = leadSeq
                /\ activities' = activities
          /\ (req[s].kind \in {"patch", "activity"} /\ req[s].code = 404) => req'[s] = req[s]]_vars

\* C12 witness: while lead 1 exists, a PATCH to lost and a POST activity for
\* lead 7 were both answered 404, and there is no activity
C12_Witness ==
    /\ 1 \in DOMAIN leads /\ 7 \notin DOMAIN leads
    /\ \E s \in Slots :
          /\ req[s].kind = "patch" /\ req[s].id = 7 /\ req[s].code = 404
          /\ req[s].body.status = JStr("lost")
    /\ \E s \in Slots : req[s].kind = "activity" /\ req[s].id = 7 /\ req[s].code = 404
    /\ activities = <<>>
    /\ leads[1] = NewLeadRow(1, "new")

\* C13: every step keeps every activity at its place in the log with the same
\* lead, kind, title, body and metadata: the log only grows at its end.
C13_ActivityLogAppendOnly ==
    [][/\ Len(activities') >= Len(activities)
       /\ \A i \in DOMAIN activities :
             /\ activities'[i].lead_id = activities[i].lead_id
             /\ activities'[i].kind = activities[i].kind
             /\ activities'[i].title = activities[i].title
             /\ activities'[i].body = activities[i].body
             /\ activities'[i].extra = activities[i].extra]_vars

\* C13 witness: the status_change of a PATCH to lost is still the first
\* activity after a POST activity added a second one and the status was written
C13_Witness ==
    /\ Len(activities) = 2
    /\ activities[1] = ActivityRow(1, "status_change", <<"Status", "->", "lost">>, "", UNDEFINED)
    /\ activities[2].kind = "call" /\ activities[2].extra = "null"
    /\ leads[1].status = "lost"
    /\ \A s \in Slots : req[s].pc = "done"

\* the limits and status filters the queries of FeedQueries come to
FeedParams == {<<EffectiveLimit(q.limit), StatusFilter(q.status)>> : q \in FeedQueries}

\* the ids of the leads that answer a poll with the given limit and status
\* filter, in the order of the answer
FeedIds(limit, status) == Limit(OrderById(FeedWhere(status, TRUE)), limit)

\* a step that inserts no lead and changes no lead's status and no practice's email
SameLeadsStatusEmail ==
    /\ DOMAIN leads' = DOMAIN leads
    /\ \A l \in DOMAIN leads : leads'[l].status = leads[l].status
    /\ \A p \in DOMAIN practices :
          p \in DOMAIN practices' /\ practices'[p].email = practices[p].email

\* C14: the leads of a feed answer are in strictly ascending order of their
\* ids, and the leads left out by the limit have greater ids than those in it;
\* a step that inserts no lead and changes no status and no email leaves the
\* sequence of leads that answers each query as it was, so two polls with the
\* same filter and limit separated by such steps return the same sequence.
C14_AscendingAndRepeatable ==
    /\ [](feed.asked =>
            /\ DOMAIN feed.leads = DOMAIN FeedIds(feed.limit, feed.status)
            /\ \A i \in DOMAIN feed.leads :
                  feed.leads[i].lead_id = FeedIds(feed.limit, feed.status)[i]
            /\ \A i, j \in DOMAIN feed.leads :
                  i < j => feed.leads[i].lead_id < feed.leads[j].lead_id
            /\ \A i \in DOMAIN feed.leads : \A l \in FeedWhere(feed.status, TRUE) :
                  (\A j \in DOMAIN feed.leads : feed.leads[j].lead_id # l)
                      => feed.leads[i].lead_id < l)
    /\ [][/\ SameLeadsStatusEmail =>
                \A x \in FeedParams : FeedIds(x[1], x[2])' = FeedIds(x[1], x[2])
          /\ (feed.asked /\ feed'.asked /\ feed'.limit = feed.limit /\ feed'.status = feed.status)
                => feed'.leads = feed.leads]_vars

\* C14 witness: the second of two polls without filter is answered with the
\* leads 1 and 2, in this order
C14_Witness ==
    /\ feed.asked /\ polls = 2 /\ feed.status = NULL
    /\ Len(feed.leads) = 2
    /\ feed.leads[1].lead_id = 1 /\ feed.leads[2].lead_id = 2

\* C15: the update step of a PATCH gives each field the body validly carries
\* the body's value and leaves every other field of the lead, and every other
\* lead, with the value it had just before the step, whoever wrote it: after
\* interleaved updates a field holds the value of the last UPDATE that carried it.
C15_FieldLevelLastWriteWins ==
    [][\A s \in Slots :
          (UpdateStep(s) /\ req[s].id \in DOMAIN leads) =>
              LET b == req[s].body
                  old == leads[req[s].id]
                  new == leads'[req[s].id]
              IN /\ new.status = IF InEnum(b.status) THEN b.status.str ELSE old.status
                 /\ new.score = IF b.score.type = "number" /\ b.score.num \in 0..100
                                 THEN b.score.num ELSE old.score
                 /\ new.notes = IF b.notes.type = "string" THEN b.notes.str
                                 ELSE IF b.notes.type = "null" THEN NULL ELSE old.notes
                 /\ new.tags = IF b.tags.type = "array" THEN b.tags.arr ELSE old.tags
                 /\ new.practice_id = old.practice_id
                 /\ \A l \in DOMAIN leads \ {req[s].id} : leads'[l] = leads[l]]_vars

\* C15 witness: a PATCH to lost arrived first and a PATCH to new second; the
\* second logged its activity first and ran its UPDATE last, and the status is
\* the new of the later UPDATE
C15_Witness ==
    /\ req[1].kind = "patch" /\ req[1].body.status = JStr("lost") /\ req[1].code = 200
    /\ req[2].kind = "patch" /\ req[2].body.status = JStr("new") /\ req[2].code = 200
    /\ req[1].id = req[2].id
    /\ Len(activities) = 2
    /\ Contains(activities[1].title, "new") /\ Contains(activities[2].title, "lost")
    /\ leads[req[1].id].status = "new"

\* C16: no ensureLead ends in an error (no practice page answers 500 and the
\* populate script never stops on its INSERT), and no practice has two leads,
\* also when two callers run ensureLead for the same practice at once.
C16_EnsureLeadConcurrentIdempotent ==
    /\ \A s \in Slots : req[s].kind = "detail" => req[s].code # 500
    /\ ing.pc # "crashed"
    /\ \A p \in DOMAIN practices :
          /\ Count(LeadsOfPractice(p)) <= 1
          /\ \A l \in LeadsOfPractice(p) : leads[l].status \in StatusEnum

\* C17: starting from the empty store, every lead's stored status is one of
\* the seven of the enum and its stored score lies in 0..100, and the stage
\* map has an entry of its own for the status of every lead of a feed answer:
\* the fallback to cold is not taken.
C17_StoredStatusAndScoreValid ==
    /\ \A l \in DOMAIN leads :
          /\ leads[l].status \in StatusEnum
          /\ leads[l].score \in 0..100
    /\ feed.asked =>
          \A i \in DOMAIN feed.leads :
              /\ feed.leads[i].status \in StatusEnum
              /\ StageMapGet(feed.leads[i].status) \notin {UNDEFINED, INHERITED}
              /\ feed.leads[i].outreach_stage = StageMapGet(feed.leads[i].status)

\* C17 witness: after a PATCH with the status archived and the score 100 was
\* answered 200, a poll returns the lead with status new and score 100 stored
C17_Witness ==
    /\ \E s \in Slots :
          /\ req[s].kind = "patch" /\ req[s].code = 200
          /\ req[s].body.status = JStr("archived") /\ req[s].body.score = JNum(100)
          /\ leads[req[s].id].score = 100
    /\ feed.asked /\ Len(feed.leads) = 1
    /\ feed.leads[1].status = "new" /\ feed.leads[1].outreach_stage = "cold"

\* no PATCH request is between its lookup and its answer
NoPatchInFlight == \A s \in Slots : req[s].kind = "patch" => req[s].pc = "done"

\* C18: whenever no PATCH is in flight, every lead that has status_change
\* activities stores the status that the one inserted last names.
C18_QuiescentLastActivityIsStatus ==
    NoPatchInFlight =>
        \A l \in DOMAIN leads :
            StatusChangesOf(l) # {} =>
                Contains(activities[LastOf(StatusChangesOf(l))].title, leads[l].status)

====
